---- MODULE Spec2Model ----
(***************************************************************************)
(* Model of the serializable_enum crate: the AsRef / FromStr impls that    *)
(* impl_as_ref_from_str! generates from a mapping block, and the serde     *)
(* Serialize / Visitor / Deserialize impls that serde_visitor! generates.  *)
(*                                                                         *)
(* A Rust string is a sequence of one-character strings, so that trimming, *)
(* case and formatting are computed character by character; the backquote *)
(* character is written "U+0060".  The enum is                             *)
(* ContentFormat { Markdown, Html } of tests/serializable_enum.rs; the     *)
(* mapping block is any block with one arm per variant, in any order, with *)
(* any token literals (the macro checks neither distinctness nor           *)
(* emptiness of the literals).                                             *)
(***************************************************************************)
EXTENDS Naturals, Sequences, FiniteSets

VARIABLES tokenMap, call, ret, wire, prev

vars == <<tokenMap, call, ret, wire, prev>>

\* ---- bounds of the model ----

\* longest token literal enumerated for a mapping arm
MaxTokLen == 1
\* longest input string enumerated for from_str / visit_str
MaxLen == 3

\* the characters strings are enumerated over: a letter in both cases, a space
Chars == {"m", "M", " "}

Strings(n) == UNION {[1..k -> Chars] : k \in 0..n}

\* ---- the enum declaration and the mapping block ----

\* $name of the enum
Name == "ContentFormat"

\* the $variant list of serializable_enum!, in declaration order
EnumVariants == <<"Markdown", "Html">>

Variants == {EnumVariants[i] : i \in DOMAIN EnumVariants}

\* stringify!(ident): the identifier's text
stringify(ident) ==
    CASE ident = "ContentFormat" -> <<"C", "o", "n", "t", "e", "n", "t", "F", "o", "r", "m", "a", "t">>
      [] ident = "Markdown"      -> <<"M", "a", "r", "k", "d", "o", "w", "n">>
      [] ident = "Html"          -> <<"H", "t", "m", "l">>

\* the token literals of the repository's own mapping blocks
markdown == <<"m", "a", "r", "k", "d", "o", "w", "n">>
html == <<"h", "t", "m", "l">>

Tokens == Strings(MaxTokLen) \cup {markdown, html}

Inputs == Strings(MaxLen) \cup Tokens
             \cup {<<"M", "a", "r", "k", "d", "o", "w", "n">>, <<" ", "m", "a", "r", "k", "d", "o", "w", "n", " ">>, <<"p", "d", "f">>}

\* the mapping blocks: $($variant => $str,)+ with one arm per variant
TokenMaps ==
    {m \in [1..Len(EnumVariants) -> [variant : Variants, str : Tokens]] :
        \A i, j \in DOMAIN m : i # j => m[i].variant # m[j].variant}

\* ---- Result ----

Ok(v) == [ok |-> TRUE, val |-> v]
Err(e) == [ok |-> FALSE, err |-> e]

\* ---- impl_as_ref_from_str! ----

\* as_ref with the match dropped: the first arm's literal for every variant
as_ref_first_arm(arms, self) == Head(arms).str

\* AsRef::as_ref: match *self { $($name::$variant => $str,)+ }
RECURSIVE as_ref(_, _)
as_ref(arms, self) ==
    IF Head(arms).variant = self
    THEN Head(arms).str
    ELSE as_ref(Tail(arms), self)

\* format! with its two arguments in the wrong order
format_swapped(s, name) ==
    <<"U+0060">> \o name \o <<"U+0060", " ", "i", "s", " ", "n", "o", "t", " ", "a", " ", "k", "n", "o", "w", "n", " ", "U+0060">> \o s \o <<"U+0060", " ", "v", "a", "r", "i", "a", "n", "t">>

\* format!("`{}` is not a known `{}` variant", s, stringify!($name))
format(s, name) ==
    <<"U+0060">> \o s \o <<"U+0060", " ", "i", "s", " ", "n", "o", "t", " ", "a", " ", "k", "n", "o", "w", "n", " ", "U+0060">> \o name \o <<"U+0060", " ", "v", "a", "r", "i", "a", "n", "t">>

\* $err::$err_variant(msg): the caller's one-argument constructor, Error::Parse
Parse(msg) == [ctor |-> "Parse", msg |-> msg]

\* from_str comparing with eq_ignore_ascii_case instead of matching exactly
to_ascii_lowercase(s) == [i \in DOMAIN s |-> IF s[i] = "M" THEN "m" ELSE s[i]]

RECURSIVE from_str_ignore_case(_, _)
from_str_ignore_case(arms, s) ==
    IF arms = <<>>
    THEN Err(Parse(format(s, stringify(Name))))
    ELSE IF to_ascii_lowercase(Head(arms).str) = to_ascii_lowercase(s)
         THEN Ok(Head(arms).variant)
         ELSE from_str_ignore_case(Tail(arms), s)

\* from_str in which a later arm overrides an earlier one
RECURSIVE from_str_last_match(_, _)
from_str_last_match(arms, s) ==
    IF arms = <<>>
    THEN Err(Parse(format(s, stringify(Name))))
    ELSE IF arms[Len(arms)].str = s
         THEN Ok(arms[Len(arms)].variant)
         ELSE from_str_last_match(SubSeq(arms, 1, Len(arms) - 1), s)

\* FromStr::from_str: match s { $($str => Ok($name::$variant),)+ _ => Err(..) }
RECURSIVE from_str(_, _)
from_str(arms, s) ==
    IF arms = <<>>
    THEN Err(Parse(format(s, stringify(Name))))
    ELSE IF Head(arms).str = s
         THEN Ok(Head(arms).variant)
         ELSE from_str(Tail(arms), s)

\* ---- the caller's error type (tests/serializable_enum.rs) ----

\* the escapes of <str as Debug>::fmt that can occur in the modelled strings
RECURSIVE escape_debug(_)
escape_debug(s) ==
    IF s = <<>> THEN <<>>
    ELSE (CASE Head(s) = "\"" -> <<"\\", "\"">>
            [] Head(s) = "\\" -> <<"\\", "\\">>
            [] OTHER -> <<Head(s)>>) \o escape_debug(Tail(s))

\* Display for Error is write!(f, "{:?}", self), the derived Debug
to_string(e) ==
    <<"P", "a", "r", "s", "e", "(", "\"">> \o escape_debug(e.msg) \o <<"\"", ")">>

\* ---- serde_visitor! ----

is_whitespace(c) == c \in {" ", "\t", "\n", "\r"}

RECURSIVE trim_start(_)
trim_start(s) ==
    IF s # <<>> /\ is_whitespace(Head(s)) THEN trim_start(Tail(s)) ELSE s

RECURSIVE trim_end(_)
trim_end(s) ==
    IF s # <<>> /\ is_whitespace(s[Len(s)])
    THEN trim_end(SubSeq(s, 1, Len(s) - 1))
    ELSE s

\* str::trim
trim(s) == trim_end(trim_start(s))

\* const VARIANTS: &[&str] = &[$(stringify!($variant)),+]
VARIANTS == [i \in DOMAIN EnumVariants |-> stringify(EnumVariants[i])]

\* serde::de::Error::unknown_field(field, expected)
unknown_field(field, expected) ==
    [kind |-> "unknown_field", field |-> field, expected |-> expected]

\* the derived Serialize of a data-less enum: a unit variant, not a string
serialize_derived(arms, self) ==
    [received |-> <<[type |-> "unit_variant", value |-> stringify(self)]>>,
     result |-> Ok("()")]

\* Serialize::serialize: self.as_ref().serialize(serializer), and
\* <str as Serialize>::serialize is serializer.serialize_str(self).  The
\* result is what the serializer received and what it returned; the
\* serializer is an in-memory one (serde_json::to_string in the tests and
\* the example), whose serialize_str returns Ok.
serialize(arms, self) ==
    [received |-> <<[type |-> "str", value |-> as_ref(arms, self)]>>,
     result |-> Ok("()")]

\* visit_str without the trim
visit_str_untrimmed(arms, s) ==
    LET r == from_str(arms, s)
    IN  IF r.ok
        THEN Ok(r.val)
        ELSE Err(unknown_field(to_string(r.err), VARIANTS))

\* visit_str falling back to the first variant when the parse fails
visit_str_default(arms, s) ==
    LET r == from_str(arms, trim(s))
    IN  IF r.ok THEN Ok(r.val) ELSE Ok(EnumVariants[1])

\* Visitor::visit_str
visit_str(arms, s) ==
    LET r == from_str(arms, trim(s))
    IN  IF r.ok
        THEN Ok(r.val)
        ELSE Err(unknown_field(to_string(r.err), VARIANTS))

\* Deserialize::deserialize: deserializer.deserialize_str($visitor), for a
\* string scalar s the deserializer calls visitor.visit_str(s)
deserialize(arms, s) == visit_str(arms, s)

\* ---- the state machine ----
\* tokenMap is the mapping block the impls were generated from; call and ret
\* are the last call on the generated impls and what it returned; wire is
\* what the serializer has received; prev is the call whose output was fed
\* to the last call, if any.  The impls keep no state, so a behaviour is one
\* call on an arbitrary input, or a projection (as_ref, serialize) followed
\* by the parse (from_str, deserialize) of its output.

Idle == [op |-> "none"]

\* a returned &str
Str(s) == [str |-> s]

Init ==
    /\ tokenMap \in TokenMaps
    /\ call = Idle
    /\ ret = Idle
    /\ wire = <<>>
    /\ prev = Idle

AsRef(v) ==
    /\ call = Idle
    /\ call' = [op |-> "as_ref", self |-> v]
    /\ ret' = Str(as_ref(tokenMap, v))
    /\ UNCHANGED <<tokenMap, wire, prev>>

FromStr(s) ==
    /\ call = Idle
    /\ call' = [op |-> "from_str", s |-> s]
    /\ ret' = from_str(tokenMap, s)
    /\ UNCHANGED <<tokenMap, wire, prev>>

Serialize(v) ==
    /\ call = Idle
    /\ call' = [op |-> "serialize", self |-> v]
    /\ ret' = serialize(tokenMap, v).result
    /\ wire' = wire \o serialize(tokenMap, v).received
    /\ UNCHANGED <<tokenMap, prev>>

Deserialize(s) ==
    /\ call = Idle
    /\ call' = [op |-> "deserialize", s |-> s]
    /\ ret' = deserialize(tokenMap, s)
    /\ UNCHANGED <<tokenMap, wire, prev>>

\* v.as_ref().parse::<$name>()
FromStrOfAsRef ==
    /\ call.op = "as_ref"
    /\ prev' = [call |-> call, ret |-> ret]
    /\ call' = [op |-> "from_str", s |-> ret.str]
    /\ ret' = from_str(tokenMap, ret.str)
    /\ UNCHANGED <<tokenMap, wire>>

\* deserializing the string scalar that serializing a variant put on the wire
DeserializeOfSerialize ==
    /\ call.op = "serialize"
    /\ ret.ok
    /\ wire # <<>>
    /\ Head(wire).type = "str"
    /\ prev' = [call |-> call, ret |-> ret]
    /\ call' = [op |-> "deserialize", s |-> Head(wire).value]
    /\ ret' = deserialize(tokenMap, Head(wire).value)
    /\ wire' = Tail(wire)
    /\ UNCHANGED tokenMap

Next ==
    \/ \E v \in Variants : AsRef(v)
    \/ \E s \in Inputs : FromStr(s)
    \/ \E v \in Variants : Serialize(v)
    \/ \E s \in Inputs : Deserialize(s)
    \/ FromStrOfAsRef
    \/ DeserializeOfSerialize

Spec == Init /\ [][Next]_vars

\* ---- properties ----

\* s is one of the token literals of the mapping block
IsToken(s) == \E i \in DOMAIN tokenMap : tokenMap[i].str = s

\* the arms of the mapping block whose token literal is s
ArmsOf(s) == {i \in DOMAIN tokenMap : tokenMap[i].str = s}

\* the first arm, in mapping order, whose token literal is s
FirstArm(s) == CHOOSE i \in ArmsOf(s) : \A j \in ArmsOf(s) : i <= j

\* the token literal the mapping block binds to variant v
TokenOf(v) == tokenMap[CHOOSE i \in DOMAIN tokenMap : tokenMap[i].variant = v].str

\* t is s without its leading and trailing whitespace
IsTrimOf(t, s) ==
    \E a, b \in 0..Len(s) :
        /\ a + b <= Len(s)
        /\ t = SubSeq(s, a + 1, Len(s) - b)
        /\ \A i \in 1..a : is_whitespace(s[i])
        /\ \A i \in (Len(s) - b + 1)..Len(s) : is_whitespace(s[i])
        /\ t # <<>> => ~is_whitespace(t[1]) /\ ~is_whitespace(t[Len(t)])

\* sub occurs in text as a contiguous substring
Contains(text, sub) ==
    \E i \in 0..Len(text) :
        i + Len(sub) <= Len(text) /\ SubSeq(text, i + 1, i + Len(sub)) = sub

\* C1: round trip -- parsing the token as_ref gave for variant v returns
\* Ok(v), for every variant and every mapping block the macro accepts.
RoundTrip ==
    (call.op = "from_str" /\ prev # Idle) => ret = Ok(prev.call.self)

\* C2: adapter round trip -- deserializing the scalar that serializing
\* variant v emitted succeeds and yields v, whatever token v is bound to.
AdapterRoundTrip ==
    (call.op = "deserialize" /\ prev # Idle) => ret = Ok(prev.call.self)

ParserExact ==
    call.op = "from_str" => (ret.ok <=> IsToken(call.s))

ParserExactWitness ==
    /\ call = [op |-> "from_str", s |-> <<"M", "a", "r", "k", "d", "o", "w", "n">>]
    /\ IsToken(markdown)
    /\ ~ret.ok

\* C5: visit_str on s gives what from_str gives on s without its leading
\* and trailing whitespace: the same variant, or a failure iff that fails.
AdapterTrims ==
    call.op = "deserialize" =>
        \E a, b \in 0..Len(call.s) :
            LET t == SubSeq(call.s, a + 1, Len(call.s) - b)
            IN  /\ a + b <= Len(call.s)
                /\ IsTrimOf(t, call.s)
                /\ ret.ok <=> IsToken(t)
                /\ ret.ok => ret.val = tokenMap[FirstArm(t)].variant

AdapterTrimsWitness ==
    /\ call = [op |-> "deserialize", s |-> <<" ", "m", "a", "r", "k", "d", "o", "w", "n", " ">>]
    /\ ret = Ok("Markdown")
    /\ ~from_str(tokenMap, call.s).ok

\* C6: from_str fails only on an s that is no token literal, and then with
\* the error the caller's constructor builds from the message
\* "`<s>` is not a known `<EnumName>` variant", s unmodified.
ParserError ==
    call.op = "from_str" =>
        IF IsToken(call.s)
        THEN ret.ok
        ELSE ret = Err([ctor |-> "Parse",
                        msg |-> <<"U+0060">> \o call.s
                                \o <<"U+0060", " ", "i", "s", " ", "n", "o", "t", " ", "a", " ", "k", "n", "o", "w", "n", " ", "U+0060", "C", "o", "n", "t", "e", "n", "t", "F", "o", "r", "m", "a", "t", "U+0060", " ", "v", "a", "r", "i", "a", "n", "t">>])

ParserErrorWitness ==
    /\ call = [op |-> "from_str", s |-> <<"p", "d", "f">>]
    /\ ~ret.ok
    /\ ret.err.msg = <<"U+0060", "p", "d", "f", "U+0060", " ", "i", "s", " ", "n", "o", "t", " ", "a", " ", "k", "n", "o", "w", "n", " ", "U+0060", "C", "o", "n", "t", "e", "n", "t", "F", "o", "r", "m", "a", "t", "U+0060", " ", "v", "a", "r", "i", "a", "n", "t">>

\* C7: when visit_str fails, the allow-list of the framework error is the
\* set of valid tokens, the strings from_str accepts.
AllowListIsTokens ==
    (call.op = "deserialize" /\ ~ret.ok) =>
        {ret.err.expected[i] : i \in DOMAIN ret.err.expected}
            = {tokenMap[i].str : i \in DOMAIN tokenMap}

\* C8 as stated: as_ref returns the token bound to the variant, and that
\* token is non-empty, for every mapping block the macro accepts.
AsRefNonEmpty ==
    call.op = "as_ref" => ret.str = TokenOf(call.self) /\ ret.str # <<>>

\* C8 amended: as_ref never fails and returns the token literal bound to
\* the variant, which is empty exactly when that literal is empty.
AsRefTotal ==
    call.op = "as_ref" =>
        /\ ret.str \in Tokens
        /\ ret.str = TokenOf(call.self)

AsRefTotalWitness ==
    /\ call = [op |-> "as_ref", self |-> "Html"]
    /\ tokenMap[1].variant = "Markdown"
    /\ ret.str = <<>>

====
